---------------------------- MODULE Spec2Model ----------------------------
(***************************************************************************)
(* Level-Based Foraging layout generators and transition engine.           *)
(*                                                                         *)
(*   lbf/generator.py        RandomGenerator (food-bearing variant)        *)
(*   lbf_empty/generator.py  RandomGenerator (empty variant)               *)
(*   lbf_empty/utils.py      simulate_agent_movement, fix_collisions,      *)
(*                           update_agent_positions, compute_action_mask   *)
(*                                                                         *)
(* A position is a pair <<x, y>>.  A random draw is an existential choice  *)
(* over the outcomes the sampler can return.  Agent and food levels are    *)
(* not modelled: no operation below reads them.                            *)
(***************************************************************************)
EXTENDS Integers, Sequences, FiniteSets, TLC

VARIABLES
    variant,               \* "lbf" (food-bearing) or "empty": which RandomGenerator
    cfg,                   \* the constructor's arguments
    pc,                    \* "new", "constructed", "rejected", "call_error", "generated", "stepped"
    food_positions,        \* State.food_items.position (lbf), <<>> otherwise
    mask,                  \* __call__'s agent-placement mask: the flat cells that are True
    agent_flat_positions,  \* sample_agents' draw, before the fixed-position override
    agents,                \* State.agents: sequence of [id, position, loading]
    last_step,             \* what the last update_agent_positions met: [collided, out_of_bounds]
    last_update            \* its arguments and its moved batch, [original_agents, actions,
                           \* moved_agents], in the runs that keep them; <<>> otherwise

vars == <<variant, cfg, pc, food_positions, mask, agent_flat_positions,
          agents, last_step, last_update>>

---------------------------------------------------------------------------
(* Bounds of the model. *)

\* Food items of the food-bearing generator.
MaxFood == 4

\* Agents of a generated layout.
MaxAgents == 2

\* Agents moved by the transition engine.
MaxStepAgents == 2

(* Program constants. *)

\* lbf/generator.py:55  assert 5 <= grid_size
MinGridSize == 5

\* constants.py (not among the source files): LOAD is the last action.
LOAD == 5

\* constants.py: the action -> displacement table; NOOP and LOAD do not move.
MOVES == << <<0, 0>>, <<-1, 0>>, <<1, 0>>, <<0, -1>>, <<0, 1>>, <<0, 0>> >>

Actions == 0 .. LOAD

\* The sentinel of fix_agents_at_positions / fix_targets_at_positions.
NoFix == <<-1, -1>>

---------------------------------------------------------------------------
(* Array helpers. *)

\* jnp.unravel_index(flat, (rows, cols)): row-major.
unravel_index(flat, cols) == << flat \div cols, flat % cols >>

\* A JAX scatter index on an axis of length n: a negative index counts from the
\* end, an index still outside the axis is dropped (the empty set).
ScatterIndex(i, n) ==
    IF i >= 0 /\ i < n THEN {i}
    ELSE IF i < 0 /\ i >= -n THEN {i + n}
    ELSE {}

\* A batch as the array it is: every element computed once.
Array(s) == s \o <<>>

IsInjective(s) == \A i, j \in DOMAIN s : s[i] = s[j] => i = j

\* jax.random.choice(a=size, shape=(), p=mask): one index of non-zero weight.
\* With every weight zero the cumulative sums are all 0 and the inverse-CDF
\* search returns index 0.
ChoiceOne(m) == IF m = {} THEN {0} ELSE m

\* jax.random.choice(a=size, shape=(n,), replace=..., p=mask).  With replacement:
\* n independent draws.  Without: n distinct indices, those of non-zero weight
\* first (Gumbel top-k); zero-weight indices fill up only when too few are left.
ChoiceMany(n, size, replace, m) ==
    IF replace
    THEN [1 .. n -> ChoiceOne(m)]
    ELSE { s \in [1 .. n -> 0 .. size - 1] :
             /\ IsInjective(s)
             /\ \A i \in 1 .. n : (i <= Cardinality(m)) <=> (s[i] \in m) }

\* jnp.where(fix[:, k] != -1, fix[:, k], sampled[:, k]) on both axes.
Override(fix, pos) ==
    << IF fix[1] # -1 THEN fix[1] ELSE pos[1],
       IF fix[2] # -1 THEN fix[2] ELSE pos[2] >>

---------------------------------------------------------------------------
(* lbf/generator.py: RandomGenerator (food-bearing). *)

\* __init__'s assertions.
LbfInitAccepts(c) ==
    /\ MinGridSize <= c.grid_sizeX
    /\ 1 <= c.fov /\ c.fov <= c.grid_sizeX
    /\ c.num_agents > 0
    /\ c.num_food > 0

\* sample_food's initial mask: every flat cell but the four border lines.
FoodMaskInit(g) ==
    (0 .. g * g - 1)
        \ ( (0 .. g - 1)
            \cup (g * g - g .. g * g - 1)
            \cup { k * g : k \in 0 .. g - 1 }
            \cup { k * g + g - 1 : k \in 0 .. g - 1 } )

\* take_positions' mask update: the drawn cell and its four flat neighbours.
take_positions_mask(m, p, g) ==
    m \ UNION { ScatterIndex(q, g * g) : q \in {p, p + 1, p - 1, p + g, p - g} }

\* jax.lax.scan(take_positions, mask, pos_keys): the sequences of flat food cells.
RECURSIVE FoodScan(_, _, _)
FoodScan(m, k, g) ==
    IF k = 0 THEN { <<>> }
    ELSE UNION { { <<p>> \o rest : rest \in FoodScan(take_positions_mask(m, p, g), k - 1, g) }
                 : p \in ChoiceOne(m) }

\* sample_food: the scan, unravelled, then the fixed-target override.
sample_food(c, flat) ==
    [ i \in 1 .. c.num_food |->
        Override(c.fix_targets[i], unravel_index(flat[i], c.grid_sizeX)) ]

\* __call__: mask = ones((g, g)); mask.at[food_positions].set(False); ravel.
\* food_positions is an (n, 2) index array applied to the first axis only, so
\* every coordinate of every food clears a whole row.
LbfAgentMask(c, food) ==
    LET g == c.grid_sizeX
        rows == UNION { ScatterIndex(food[i][k], g) : i \in DOMAIN food, k \in 1 .. 2 }
    IN  { f \in 0 .. g * g - 1 : (f \div g) \notin rows }

---------------------------------------------------------------------------
(* lbf_empty/generator.py: RandomGenerator (empty). *)

\* __init__'s only assertion.
EmptyInitAccepts(c) == c.num_agents > 0

\* __call__: mask = ones((X, Y)); with others_influence the cells of the agents
\* whose fixed x is not -1 are cleared; ravel.
EmptyAgentMask(c) ==
    LET X == c.grid_sizeX
        Y == c.grid_sizeY
        active == { i \in DOMAIN c.fix_agents : c.fix_agents[i][1] # -1 }
        reserved == UNION { { x * Y + y : x \in ScatterIndex(c.fix_agents[i][1], X),
                                           y \in ScatterIndex(c.fix_agents[i][2], Y) }
                            : i \in active }
    IN  IF c.others_influence THEN (0 .. X * Y - 1) \ reserved ELSE 0 .. X * Y - 1

---------------------------------------------------------------------------
(* Both generators. *)

\* Mutant of SampleAgentsDraws: replace = others_influence.
SampleAgentsDraws_swapped(c, m) ==
    ChoiceMany(c.num_agents, c.grid_sizeX * c.grid_sizeY, c.others_influence, m)

\* sample_agents: replace = not others_influence.
SampleAgentsDraws(c, m) ==
    ChoiceMany(c.num_agents, c.grid_sizeX * c.grid_sizeY, ~c.others_influence, m)

\* sample_agents: unravel, then the fixed-agent override.
sample_agents(c, flat) ==
    [ i \in 1 .. c.num_agents |->
        Override(c.fix_agents[i], unravel_index(flat[i], c.grid_sizeY)) ]

\* __call__: jax.vmap(Agent)(id=arange(n), position=..., loading=zeros).
MakeAgents(positions) ==
    [ i \in DOMAIN positions |-> [id |-> i - 1, position |-> positions[i], loading |-> FALSE] ]

---------------------------------------------------------------------------
(* lbf_empty/utils.py: the transition engine. *)

\* Mutant of flag_duplicates: the first holder of a row is not flagged.
flag_duplicates_later(a) ==
    Array([ i \in DOMAIN a |-> \E j \in DOMAIN a : j < i /\ a[j] = a[i] ])

\* flag_duplicates: jnp.unique(a, return_inverse, return_counts, axis=0) gives
\* the distinct rows, for each row of a its distinct row (the inverse), and for
\* each distinct row the number of rows of a equal to it.  A distinct row stands
\* for its slot in the sorted result; the padding slots are never indexed.
flag_duplicates(a) ==
    LET counts(u) == Cardinality({ j \in DOMAIN a : a[j] = u })
        indices(i) == a[i]
    IN  Array([ i \in DOMAIN a |-> ~(counts(indices(i)) = 1) ])

\* Mutant of simulate_agent_movement: only an agent of a lower id blocks.
simulate_agent_movement_by_id(agent, action, all_agents, grid_sizeX, grid_sizeY, others_influence) ==
    LET new_position == << agent.position[1] + MOVES[action + 1][1],
                           agent.position[2] + MOVES[action + 1][2] >>
        out_of_bounds == \/ new_position[1] < 0 \/ new_position[2] < 0
                         \/ new_position[1] >= grid_sizeX
                         \/ new_position[2] >= grid_sizeY
        agent_at_position == \E j \in DOMAIN all_agents :
                                /\ new_position = all_agents[j].position
                                /\ agent.id > all_agents[j].id
        rejected == IF others_influence THEN out_of_bounds \/ agent_at_position
                    ELSE out_of_bounds
    IN  [agent EXCEPT !.position = IF rejected THEN agent.position ELSE new_position]

\* Mutant of simulate_agent_movement: the y axis is not checked against the grid.
simulate_agent_movement_no_y(agent, action, all_agents, grid_sizeX, grid_sizeY, others_influence) ==
    LET new_position == << agent.position[1] + MOVES[action + 1][1],
                           agent.position[2] + MOVES[action + 1][2] >>
        out_of_bounds == \/ new_position[1] < 0 \/ new_position[2] < 0
                         \/ new_position[1] >= grid_sizeX
        agent_at_position == \E j \in DOMAIN all_agents :
                                /\ new_position = all_agents[j].position
                                /\ agent.id # all_agents[j].id
        rejected == IF others_influence THEN out_of_bounds \/ agent_at_position
                    ELSE out_of_bounds
    IN  [agent EXCEPT !.position = IF rejected THEN agent.position ELSE new_position]

\* Mutant of simulate_agent_movement: another agent's cell does not block.
simulate_agent_movement_unblocked(agent, action, all_agents, grid_sizeX, grid_sizeY, others_influence) ==
    LET new_position == << agent.position[1] + MOVES[action + 1][1],
                           agent.position[2] + MOVES[action + 1][2] >>
        out_of_bounds == \/ new_position[1] < 0 \/ new_position[2] < 0
                         \/ new_position[1] >= grid_sizeX
                         \/ new_position[2] >= grid_sizeY
    IN  [agent EXCEPT !.position = IF out_of_bounds THEN agent.position ELSE new_position]

\* simulate_agent_movement.
simulate_agent_movement(agent, action, all_agents, grid_sizeX, grid_sizeY, others_influence) ==
    LET new_position == << agent.position[1] + MOVES[action + 1][1],
                           agent.position[2] + MOVES[action + 1][2] >>
        out_of_bounds == \/ new_position[1] < 0 \/ new_position[2] < 0
                         \/ new_position[1] >= grid_sizeX
                         \/ new_position[2] >= grid_sizeY
        agent_at_position == \E j \in DOMAIN all_agents :
                                /\ new_position = all_agents[j].position
                                /\ agent.id # all_agents[j].id
        rejected == IF others_influence THEN out_of_bounds \/ agent_at_position
                    ELSE out_of_bounds
    IN  [agent EXCEPT !.position = IF rejected THEN agent.position ELSE new_position]

\* Mutant of fix_collisions: the two branches of jnp.where swapped.
fix_collisions_swapped(moved_agents, originals) ==
    LET duplicates == flag_duplicates(Array([ i \in DOMAIN moved_agents |->
                                                 moved_agents[i].position ]))
    IN  [ i \in DOMAIN moved_agents |->
            [ id |-> originals[i].id,
              position |-> IF duplicates[i] THEN moved_agents[i].position
                           ELSE originals[i].position,
              loading |-> originals[i].loading ] ]

\* fix_collisions.
fix_collisions(moved_agents, originals) ==
    LET duplicates == flag_duplicates(Array([ i \in DOMAIN moved_agents |->
                                                 moved_agents[i].position ]))
    IN  [ i \in DOMAIN moved_agents |->
            [ id |-> originals[i].id,
              position |-> IF duplicates[i] THEN originals[i].position
                           ELSE moved_agents[i].position,
              loading |-> originals[i].loading ] ]

\* update_agent_positions' first statement: the vmap of simulate_agent_movement.
MovedAgents(ags, acts, grid_sizeX, grid_sizeY, others_influence) ==
    Array([ i \in DOMAIN ags |->
        simulate_agent_movement(ags[i], acts[i], ags, grid_sizeX, grid_sizeY, others_influence) ])

\* update_agent_positions.
update_agent_positions(ags, acts, grid_sizeX, grid_sizeY, others_influence) ==
    LET moved_agents == MovedAgents(ags, acts, grid_sizeX, grid_sizeY, others_influence)
        fixed == fix_collisions(moved_agents, ags)
    IN  IF others_influence
        THEN [ i \in DOMAIN ags |-> [fixed[i] EXCEPT !.loading = (acts[i] = LOAD)] ]
        ELSE moved_agents

\* compute_action_mask: one flag per action, TRUE = legal.
compute_action_mask(agent, all_agents, grid_size) ==
    [ a \in Actions |->
        LET next_pos == << agent.position[1] + MOVES[a + 1][1],
                           agent.position[2] + MOVES[a + 1][2] >>
            agent_occupied == \E j \in DOMAIN all_agents :
                                 /\ next_pos = all_agents[j].position
                                 /\ all_agents[j].id # agent.id
            out_of_bounds == \/ next_pos[1] < 0 \/ next_pos[2] < 0
                             \/ next_pos[1] >= grid_size \/ next_pos[2] >= grid_size
        IN  ~(agent_occupied \/ out_of_bounds) ]

---------------------------------------------------------------------------
(* The configurations explored. *)

\* Fixed-position entries: none, a full cell, x alone (y stays sampled).
FixChoices == { NoFix, <<1, 1>>, <<0, -1>> }

AllNoFix(n) == [ i \in 1 .. n |-> NoFix ]

\* Arrays of n entries of which only the first may be fixed.
FixFirst(n) == { [ i \in 1 .. n |-> IF i = 1 THEN f ELSE NoFix ] : f \in FixChoices }

Config(gx, gy, f, na, nf, fa, ft, oi) ==
    [ grid_sizeX |-> gx, grid_sizeY |-> gy, fov |-> f, num_agents |-> na, num_food |-> nf,
      fix_agents |-> fa, fix_targets |-> ft, others_influence |-> oi ]

\* Food-bearing, accepted by __init__: the smallest grid; many foods with one
\* agent, or one food (fixed) with many agents.
LbfValidConfigs ==
    { Config(MinGridSize, MinGridSize, 1, 1, nf, fa, ft, FALSE) :
        nf \in 1 .. MaxFood, fa \in FixFirst(1),
        ft \in UNION { FixFirst(n) : n \in 1 .. MaxFood } }
    \cup
    { Config(MinGridSize, MinGridSize, 1, na, 1, fa, << <<1, 1>> >>, oi) :
        na \in 1 .. MaxAgents, fa \in UNION { FixFirst(n) : n \in 1 .. MaxAgents },
        oi \in BOOLEAN }

\* Food-bearing, one invalid argument each.
LbfInvalidConfigs ==
    { Config(g, g, f, na, nf, AllNoFix(na), AllNoFix(nf), FALSE) :
        g \in { MinGridSize - 1, MinGridSize }, f \in { 0, 1, MinGridSize, MinGridSize + 1 },
        na \in 0 .. 1, nf \in 0 .. 1 }

LbfConfigs ==
    { c \in LbfValidConfigs \cup LbfInvalidConfigs :
        Len(c.fix_agents) = c.num_agents /\ Len(c.fix_targets) = c.num_food }

\* Empty: a 2 x 2 and a 2 x 3 grid, and degenerate arguments it never checks.
EmptyGrids == { <<2, 2>>, <<2, 3>> }

\* Arrays of n entries: none fixed, or the first two fixed to the same cell, or
\* the first fixed in x alone.
OverlapFix(n) == [ i \in 1 .. n |-> IF i <= 2 THEN <<0, 0>> ELSE NoFix ]

PartialFix(n) == [ i \in 1 .. n |-> IF i = 1 THEN <<1, -1>> ELSE NoFix ]

EmptyConfigs ==
    { Config(d[1], d[2], 1, Len(fa), 0, fa, <<>>, oi) :
        d \in EmptyGrids,
        fa \in UNION { { AllNoFix(n), OverlapFix(n), PartialFix(n) } : n \in 1 .. MaxAgents },
        oi \in BOOLEAN }
    \cup
    { Config(g, g, f, na, 0, AllNoFix(na), <<>>, oi) :
        g \in { 0, 1 }, f \in { 0, 1, 2 }, na \in 0 .. MaxAgents, oi \in BOOLEAN }

\* The engine's runs: layouts of the empty generator on the two grids.  Without
\* others_influence the draw alone gives every layout; with it the draw gives
\* the layouts of distinct cells and the fixed cells give overlapping ones.
StepConfigs ==
    { Config(d[1], d[2], 1, n, 0, AllNoFix(n), <<>>, oi) :
        d \in EmptyGrids, n \in 1 .. MaxStepAgents, oi \in BOOLEAN }
    \cup
    { Config(d[1], d[2], 1, n, 0, OverlapFix(n), <<>>, TRUE) :
        d \in EmptyGrids, n \in 1 .. MaxStepAgents }

---------------------------------------------------------------------------
(* The state machine. *)

InitWith(v, configs) ==
    /\ variant = v
    /\ cfg \in configs
    /\ pc = "new"
    /\ food_positions = <<>>
    /\ mask = {}
    /\ agent_flat_positions = <<>>
    /\ agents = <<>>
    /\ last_step = <<>>
    /\ last_update = <<>>

\* The generators' runs.
Init == InitWith("lbf", LbfConfigs) \/ InitWith("empty", EmptyConfigs)

\* The engine's runs.
InitStep == InitWith("empty", StepConfigs)

\* RandomGenerator.__init__ of either variant: an AssertionError or a generator.
Construct ==
    /\ pc = "new"
    /\ pc' = IF (variant = "lbf" /\ LbfInitAccepts(cfg)) \/ (variant = "empty" /\ EmptyInitAccepts(cfg))
             THEN "constructed" ELSE "rejected"
    /\ UNCHANGED <<variant, cfg, food_positions, mask, agent_flat_positions,
                   agents, last_step, last_update>>

\* jax.random.choice raises on an empty population, and when asked for more
\* distinct cells than there are.
ChoiceRaises(c) ==
    \/ c.grid_sizeX * c.grid_sizeY < 1
    \/ (c.others_influence /\ c.num_agents > c.grid_sizeX * c.grid_sizeY)

\* lbf RandomGenerator.__call__.
LbfCall ==
    /\ pc = "constructed" /\ variant = "lbf" /\ ~ChoiceRaises(cfg)
    /\ \E food_flat \in FoodScan(FoodMaskInit(cfg.grid_sizeX), cfg.num_food, cfg.grid_sizeX) :
         LET food == sample_food(cfg, food_flat)
             m == LbfAgentMask(cfg, food)
         IN  \E flat \in SampleAgentsDraws(cfg, m) :
               /\ food_positions' = food
               /\ mask' = m
               /\ agent_flat_positions' = flat
               /\ agents' = MakeAgents(sample_agents(cfg, flat))
    /\ pc' = "generated"
    /\ UNCHANGED <<variant, cfg, last_step, last_update>>

\* lbf_empty RandomGenerator.__call__.
EmptyCall ==
    /\ pc = "constructed" /\ variant = "empty" /\ ~ChoiceRaises(cfg)
    /\ LET m == EmptyAgentMask(cfg)
       IN  \E flat \in SampleAgentsDraws(cfg, m) :
             /\ mask' = m
             /\ agent_flat_positions' = flat
             /\ agents' = MakeAgents(sample_agents(cfg, flat))
    /\ pc' = "generated"
    /\ UNCHANGED <<variant, cfg, food_positions, last_step, last_update>>

\* __call__ of either variant when the sampler raises.
CallRaises ==
    /\ pc = "constructed" /\ ChoiceRaises(cfg)
    /\ pc' = "call_error"
    /\ UNCHANGED <<variant, cfg, food_positions, mask, agent_flat_positions,
                   agents, last_step, last_update>>

\* What an update_agent_positions call met: whether fix_collisions saw a shared
\* post-move cell, and whether a candidate cell was off the grid.
StepEvents(ags, acts, moved, c) ==
    [ collided |-> c.others_influence
                   /\ \E i \in DOMAIN moved : \E j \in DOMAIN moved :
                         i < j /\ moved[i].position = moved[j].position,
      out_of_bounds |-> \E i \in DOMAIN ags :
                           \/ ags[i].position[1] + MOVES[acts[i] + 1][1] < 0
                           \/ ags[i].position[2] + MOVES[acts[i] + 1][2] < 0
                           \/ ags[i].position[1] + MOVES[acts[i] + 1][1] >= c.grid_sizeX
                           \/ ags[i].position[2] + MOVES[acts[i] + 1][2] >= c.grid_sizeY ]

\* One update_agent_positions call on the empty variant's state, from any of
\* the program points in `from`.  The locals of __call__ (mask, flat draw) are
\* dead once the state is stepped.  With `keep` the call's arguments stay
\* visible in last_update.
Step(from, keep) ==
    /\ pc \in from /\ variant = "empty"
    /\ \E acts \in [DOMAIN agents -> Actions] :
         LET moved == MovedAgents(agents, acts, cfg.grid_sizeX, cfg.grid_sizeY,
                                  cfg.others_influence)
         IN  /\ agents' = update_agent_positions(agents, acts, cfg.grid_sizeX, cfg.grid_sizeY,
                                                 cfg.others_influence)
             /\ last_step' = StepEvents(agents, acts, moved, cfg)
             /\ last_update' = IF keep
                               THEN [ original_agents |-> agents, actions |-> acts,
                                      moved_agents |-> moved ]
                               ELSE <<>>
    /\ pc' = "stepped"
    /\ mask' = {}
    /\ agent_flat_positions' = <<>>
    /\ UNCHANGED <<variant, cfg, food_positions>>

\* compute_action_mask for one agent of the current state: a pure query, its
\* result goes to the caller.  The caller hands it one grid_size, either
\* dimension of the grid.
ComputeActionMask ==
    /\ pc \in { "generated", "stepped" } /\ variant = "empty"
    /\ \E gs \in { cfg.grid_sizeX, cfg.grid_sizeY }, i \in DOMAIN agents :
         compute_action_mask(agents[i], agents, gs) \in [Actions -> BOOLEAN]
    /\ UNCHANGED vars

\* The generators: construction, then one layout.
Next ==
    \/ Construct
    \/ LbfCall
    \/ EmptyCall
    \/ CallRaises

Spec == Init /\ [][Next]_vars

\* The engine, one call: an empty-variant layout, then one
\* update_agent_positions whose arguments are kept.
NextUpdate ==
    \/ Construct
    \/ EmptyCall
    \/ Step({ "generated" }, TRUE)
    \/ ComputeActionMask

SpecUpdate == InitStep /\ [][NextUpdate]_vars

\* The engine, any run: an empty-variant layout, then any number of steps.
NextStep ==
    \/ Construct
    \/ EmptyCall
    \/ Step({ "generated", "stepped" }, FALSE)
    \/ ComputeActionMask

SpecStep == InitStep /\ [][NextStep]_vars

---------------------------------------------------------------------------
(* Vocabulary of the properties. *)

Manhattan(p, q) ==
    (IF p[1] >= q[1] THEN p[1] - q[1] ELSE q[1] - p[1])
    + (IF p[2] >= q[2] THEN p[2] - q[2] ELSE q[2] - p[2])

InGrid(p, gx, gy) == p[1] >= 0 /\ p[1] < gx /\ p[2] >= 0 /\ p[2] < gy

OnBorder(p, g) == p[1] = 0 \/ p[2] = 0 \/ p[1] = g - 1 \/ p[2] = g - 1

Positions(ags) == [ i \in DOMAIN ags |-> ags[i].position ]

AgentsInGrid(ags) ==
    \A i \in DOMAIN ags : InGrid(ags[i].position, cfg.grid_sizeX, cfg.grid_sizeY)

Candidate(agent, a) ==
    << agent.position[1] + MOVES[a + 1][1], agent.position[2] + MOVES[a + 1][2] >>

Generated == pc = "generated"

Updated == pc = "stepped" /\ last_update # <<>>

---------------------------------------------------------------------------
(* C1 *)

\* C1: in every layout of the food-bearing generator no two food positions are
\* at Manhattan distance 1 and no food position lies on the border ring.
C1_FoodApartAndOffBorder ==
    (Generated /\ variant = "lbf") =>
        /\ \A i, j \in DOMAIN food_positions :
              Manhattan(food_positions[i], food_positions[j]) # 1
        /\ \A i \in DOMAIN food_positions : ~OnBorder(food_positions[i], cfg.grid_sizeX)

---------------------------------------------------------------------------
(* C2 *)

\* fix_collisions applied to the kept moved batch and originals.
C2_Fixed == fix_collisions(last_update.moved_agents, last_update.original_agents)

---------------------------------------------------------------------------
(* C3 *)

\* C3 as stated: under others_influence the agents update_agent_positions
\* returns have pairwise distinct positions, whatever the input.
C3_AlwaysDistinct ==
    (Updated /\ cfg.others_influence) => IsInjective(Positions(agents))

\* C3 amended: update_agent_positions with others_influence=True returns
\* pairwise distinct positions for every input whose positions are pairwise
\* distinct.
C3_DistinctKept ==
    Updated =>
        LET o == last_update.original_agents
            r == update_agent_positions(o, last_update.actions, cfg.grid_sizeX,
                                        cfg.grid_sizeY, TRUE)
        IN  /\ (IsInjective(Positions(o)) => IsInjective(Positions(r)))
            /\ (cfg.others_influence => agents = r)

\* C3 witness: distinct agents collided, and the result is distinct.
C3_Witness ==
    /\ Updated /\ cfg.others_influence
    /\ IsInjective(Positions(last_update.original_agents))
    /\ last_step.collided
    /\ IsInjective(Positions(agents))

---------------------------------------------------------------------------
(* C4 *)

\* C4: an action compute_action_mask marks legal is not rejected by
\* simulate_agent_movement on the same agent, snapshot and grid, with
\* others_influence on or off.
C4_MaskedLegalMoves ==
    (pc \in { "generated", "stepped" } /\ variant = "empty") =>
        \A gs \in { cfg.grid_sizeX, cfg.grid_sizeY }, i \in DOMAIN agents,
           a \in Actions, oi \in BOOLEAN :
            compute_action_mask(agents[i], agents, gs)[a] =>
                simulate_agent_movement(agents[i], a, agents, cfg.grid_sizeX,
                                        cfg.grid_sizeY, oi).position
                    = Candidate(agents[i], a)

---------------------------------------------------------------------------
(* C5 *)

\* C5 as stated: without others_influence no two sampled flat positions are
\* equal.
C5_NoRepeatWithoutInfluence ==
    (Generated /\ ~cfg.others_influence) => IsInjective(agent_flat_positions)

\* C5 amended: sample_agents draws without replacement (no two sampled flat
\* positions are equal) when others_influence is true, and with replacement
\* when it is false, in both generators.
C5_NoRepeatWithInfluence ==
    Generated =>
        /\ Len(agent_flat_positions) = cfg.num_agents
        /\ \A i \in DOMAIN agent_flat_positions :
              agent_flat_positions[i] \in 0 .. cfg.grid_sizeX * cfg.grid_sizeY - 1
        /\ (cfg.others_influence => IsInjective(agent_flat_positions))

\* C5 witness: a draw of several agents under others_influence.
C5_Witness ==
    /\ Generated /\ cfg.others_influence
    /\ Len(agent_flat_positions) >= 2
    /\ IsInjective(agent_flat_positions)

---------------------------------------------------------------------------
(* C6 *)

\* C6: in every State of the food-bearing generator every agent and food
\* position is inside the grid and no agent is on a food cell.
C6_InGridAndOffFood ==
    (Generated /\ variant = "lbf") =>
        /\ \A i \in DOMAIN agents : InGrid(agents[i].position, cfg.grid_sizeX, cfg.grid_sizeY)
        /\ \A k \in DOMAIN food_positions :
              InGrid(food_positions[k], cfg.grid_sizeX, cfg.grid_sizeY)
        /\ \A i \in DOMAIN agents, k \in DOMAIN food_positions :
              agents[i].position # food_positions[k]

---------------------------------------------------------------------------
(* C7 *)

\* The static parameters C7 calls invalid.
C7_Invalid(c) ==
    \/ c.grid_sizeX < 1 \/ c.grid_sizeY < 1
    \/ (variant = "lbf" /\ c.grid_sizeX < MinGridSize)
    \/ c.fov < 1 \/ c.fov > c.grid_sizeX \/ c.fov > c.grid_sizeY
    \/ c.num_agents <= 0
    \/ (variant = "lbf" /\ c.num_food <= 0)

\* C7: either generator's __init__ rejects invalid static parameters.
C7_InvalidRejected ==
    (pc # "new" /\ C7_Invalid(cfg)) => pc = "rejected"

---------------------------------------------------------------------------
(* C8 *)

BatchPermutations(n) == { p \in [1 .. n -> 1 .. n] : IsInjective(p) }

Permuted(s, p) == [ i \in DOMAIN s |-> s[p[i]] ]

\* The agents with their ids dealt out afresh by p.
Relabelled(ags, p) == [ i \in DOMAIN ags |-> [ags[i] EXCEPT !.id = p[i] - 1] ]

\* C8: update_agent_positions commutes with every permutation of the batch,
\* and an agent's resulting position does not depend on which id it carries.
C8_OrderIndependent ==
    Updated =>
        LET o == last_update.original_agents
            acts == last_update.actions
            update(ags, as) == update_agent_positions(ags, as, cfg.grid_sizeX,
                                                      cfg.grid_sizeY, cfg.others_influence)
        IN  \A p \in BatchPermutations(Len(o)) :
                /\ update(Permuted(o, p), Permuted(acts, p)) = Permuted(agents, p)
                /\ Positions(update(Relabelled(o, p), acts)) = Positions(agents)

\* C8 witness: a batch of two agents taking different actions was updated, one
\* of them moving.
C8_Witness ==
    /\ Updated /\ Len(agents) >= 2
    /\ last_update.actions[1] # last_update.actions[2]
    /\ agents[1].position # last_update.original_agents[1].position
    /\ agents[1].position # agents[2].position

---------------------------------------------------------------------------
(* C9 *)

AllCells(c) == 0 .. c.grid_sizeX * c.grid_sizeY - 1

Flat(p, c) == p[1] * c.grid_sizeY + p[2]

\* An entry that fixes both axes or neither.
WholeOrNoFix(f) == f = NoFix \/ (f[1] # -1 /\ f[2] # -1)

\* C9: the agent-placement mask is true exactly off the food cells
\* (food-bearing), and everywhere but, under others_influence, the cells of
\* the agents fixed to a cell (empty).
C9_MaskIsComplement ==
    Generated =>
        /\ variant = "lbf" =>
              mask = AllCells(cfg) \ { Flat(food_positions[k], cfg) : k \in DOMAIN food_positions }
        /\ (variant = "empty" /\ \A i \in DOMAIN cfg.fix_agents : WholeOrNoFix(cfg.fix_agents[i])) =>
              mask = AllCells(cfg)
                       \ (IF cfg.others_influence
                          THEN { Flat(cfg.fix_agents[i], cfg) :
                                    i \in { k \in DOMAIN cfg.fix_agents : cfg.fix_agents[k] # NoFix } }
                          ELSE {})

---------------------------------------------------------------------------
(* C10 *)

\* C10: update_agent_positions keeps agents that are inside the grid inside
\* it, and a move whose candidate cell is off the grid on either axis leaves
\* the agent where it is, with others_influence on or off.
C10_StaysInGrid ==
    /\ [][ (pc \in { "generated", "stepped" } /\ AgentsInGrid(agents)) => AgentsInGrid(agents') ]_vars
    /\ [](pc \in { "generated", "stepped" } =>
            \A i \in DOMAIN agents, a \in Actions, oi \in BOOLEAN :
                ~InGrid(Candidate(agents[i], a), cfg.grid_sizeX, cfg.grid_sizeY) =>
                    simulate_agent_movement(agents[i], a, agents, cfg.grid_sizeX,
                                            cfg.grid_sizeY, oi).position = agents[i].position)

\* C10 witness: a step in which a candidate cell was off the grid, after which
\* every agent is inside it.
C10_Witness ==
    /\ pc = "stepped" /\ last_step.out_of_bounds
    /\ AgentsInGrid(agents)

---------------------------------------------------------------------------
(* C11 *)

\* C11: with others_influence, a step from pairwise distinct positions ends in
\* pairwise distinct positions, for every action batch, and no agent ends the
\* step on the cell another agent held when it began; so a layout drawn
\* without fixed cells stays pairwise distinct through every run.
C11_DistinctPreserved ==
    /\ [][ ( /\ pc \in { "generated", "stepped" } /\ pc' = "stepped"
             /\ cfg.others_influence
             /\ IsInjective(Positions(agents)) )
           => ( /\ IsInjective(Positions(agents'))
                /\ \A i \in DOMAIN agents : \A j \in DOMAIN agents :
                      i # j => agents'[i].position # agents[j].position ) ]_vars
    /\ []( ( /\ pc \in { "generated", "stepped" }
             /\ cfg.others_influence
             /\ cfg.fix_agents = AllNoFix(cfg.num_agents) )
           => IsInjective(Positions(agents)) )

\* C11 witness: under others_influence, a step in which two agents made for
\* the same cell and were sent back, leaving several agents on distinct cells.
C11_Witness ==
    /\ pc = "stepped" /\ cfg.others_influence
    /\ Len(agents) >= 2
    /\ last_step.collided
    /\ IsInjective(Positions(agents))

---------------------------------------------------------------------------
(* C12 *)

\* C12: in every state of a run, compute_action_mask marks the no-op and the
\* load action legal for every agent that lies inside the grid_size it is
\* given, with others_influence on or off and whether or not cells are shared.
C12_ZeroMovesLegal ==
    pc \in { "generated", "stepped" } =>
        \A i \in DOMAIN agents : \A gs \in { cfg.grid_sizeX, cfg.grid_sizeY } :
            InGrid(agents[i].position, gs, gs) =>
                \A a \in { b \in Actions : MOVES[b + 1] = <<0, 0>> } :
                    compute_action_mask(agents[i], agents, gs)[a]

=============================================================================
